---- MODULE Spec2Model ----
(***************************************************************************)
(* Model of graph/examples/validate.rs: the `validate` example binary of   *)
(* graph-node.  main() sets one environment variable, then walks the       *)
(* command line's schema files (one schema per file, or one JSONL record   *)
(* per line with --batch) and hands every schema to parse(), which runs    *)
(* parse_schema -> subgraph_id -> InputSchema::parse -> api_schema.        *)
(*                                                                         *)
(* The file system is the environment: what a file or a line holds is      *)
(* chosen when main() reads it.  A schema text is described by what the    *)
(* library calls make of it (does it parse, which directives its object    *)
(* types carry, does it validate, does the API schema derive).             *)
(***************************************************************************)
EXTENDS Integers, Sequences, FiniteSets, TLC

VARIABLES
    batch,      \* Opts.batch
    api,        \* Opts.api
    nFiles,     \* Opts.schemas.len(); the i-th path is SchemaPath(i)
    pc,         \* where main()/parse() stands
    fi,         \* index of the file the outer loop is at (0: none yet)
    li,         \* lines of the current bulk file already taken from rdr.lines()
    nLines,     \* lines the current bulk file holds
    fileLens,   \* schemas held by each file opened so far
    raw,        \* parse(): raw
    name,       \* parse(): name
    doc,        \* parse(): schema (the parsed s::Document)
    id,         \* parse(): id
    envFlag,    \* GRAPH_ALLOW_NON_DETERMINISTIC_FULLTEXT_SEARCH is "true"
    envWrites,  \* number of set_var calls so far
    stdout,     \* lines printed with println!
    stderr,     \* lines printed with eprintln! or by a panic
    exitCode,   \* process exit status: <<>> while running, <<code>> once exited
    ingested,   \* history: the schemas handed to parse(), in call order
    stages      \* history: stages of parse() attempted for the current schema

opts   == <<batch, api, nFiles>>
pos    == <<fi, li, nLines, fileLens>>
locals == <<raw, name, doc, id>>
env    == <<envFlag, envWrites>>
out    == <<stdout, stderr, exitCode>>
hist   == <<ingested, stages>>
vars   == <<batch, api, nFiles, pc, fi, li, nLines, fileLens, raw, name, doc, id,
            envFlag, envWrites, stdout, stderr, exitCode, ingested, stages>>

---------------------------------------------------------------------------
(* Bounds *)

MaxFiles == 2
MaxLines == 2
MaxSchemas == 3

(* Sample values *)

BulkIds == {1, 2}
ExitOk == 0
ExitEnsure == 1
ExitPanic == 101

Min(a, b) == IF a < b THEN a ELSE b
Last(s) == s[Len(s)]

---------------------------------------------------------------------------
(* Schema texts.  An object type is [dir, arg, val]: whether it carries a  *)
(* subgraphId directive, what that directive's `id` argument is ("absent", *)
(* "int" for any non-string value, "string"), and the string's value.      *)

NoDirective == [dir |-> FALSE, arg |-> "absent", val |-> ""]
DirNoArg    == [dir |-> TRUE,  arg |-> "absent", val |-> ""]
DirIntArg   == [dir |-> TRUE,  arg |-> "int",    val |-> ""]
DirStr(s)   == [dir |-> TRUE,  arg |-> "string", val |-> s]

Text(syn, tys, inp, apiok, ft) ==
    [syntax |-> syn, types |-> tys, inputOk |-> inp, apiOk |-> apiok, fulltext |-> ft]

NoText == Text(FALSE, <<>>, FALSE, FALSE, FALSE)

Texts ==
    { Text(FALSE, <<>>, FALSE, FALSE, FALSE),                              \* unbalanced braces
      Text(TRUE, <<>>, TRUE, TRUE, FALSE),                                 \* no object type
      Text(TRUE, <<DirStr("abc123")>>, TRUE, TRUE, FALSE),                 \* scenario A
      Text(TRUE, <<NoDirective, DirStr("abc123")>>, TRUE, TRUE, FALSE),    \* directive on a later type
      Text(TRUE, <<DirNoArg>>, TRUE, TRUE, FALSE),                         \* no id argument
      Text(TRUE, <<DirIntArg, DirStr("abc123")>>, TRUE, TRUE, FALSE),      \* non-string argument
      Text(TRUE, <<DirStr("bad id!")>>, TRUE, TRUE, FALSE),                \* not a deployment hash
      Text(TRUE, <<DirStr("abc123")>>, FALSE, FALSE, FALSE),               \* invalid schema
      Text(TRUE, <<DirStr("abc123")>>, TRUE, FALSE, FALSE),                \* scenario D
      Text(TRUE, <<DirStr("abc123")>>, TRUE, TRUE, TRUE) }                 \* fulltext directive

InvalidHashes == {"bad id!"}

SchemaPath(i) == <<"path", i>>
BulkName(n) == <<"sgd", n>>
NoName == <<"", 0>>

Line(tag, nm, ident) == [tag |-> tag, name |-> nm, id |-> ident]

---------------------------------------------------------------------------
(* Library calls *)

\* graphql_parser::parse_schema(raw).map(|v| v.into_static())
ParseSchema(text) == [ok |-> text.syntax, val |-> text.types]

\* DeploymentHash::new(id)
DeploymentHashNew(s) == [ok |-> s \notin InvalidHashes, val |-> s]

\* InputSchema::parse(&SPEC_VERSION_1_1_0, raw, id)
InputSchemaParse(text, ident, flag) == text.inputOk /\ (text.fulltext => flag)

\* input_schema.api_schema()
ApiSchema(text) == text.apiOk

---------------------------------------------------------------------------
(* subgraph_id, up to the construction of the DeploymentHash *)

\* FirstObjectType looking for the first object type that carries the directive
FirstDirectiveCarrier(d) ==
    IF \E i \in 1..Len(d) : d[i].dir
    THEN <<d[CHOOSE i \in 1..Len(d) : d[i].dir /\ \A j \in 1..(i - 1) : ~d[j].dir]>>
    ELSE <<>>

\* .get_object_type_definitions().first()
FirstObjectType(d) == IF d = <<>> THEN <<>> ELSE <<d[1]>>

\* .and_then(|obj_type| obj_type.find_directive("subgraphId"))
FindDirective(o) == IF o # <<>> /\ o[1].dir THEN o ELSE <<>>

\* .and_then(|dir| dir.argument("id"))
Argument(o) == IF o # <<>> /\ o[1].arg # "absent" THEN o ELSE <<>>

\* .and_then(|arg| match arg { s::Value::String(s) => Some(s.to_owned()), _ => None })
StringValue(o) == IF o # <<>> /\ o[1].arg = "string" THEN <<o[1].val>> ELSE <<>>

\* .unwrap_or("unknown".to_string())
UnwrapOr(o, dflt) == IF o # <<>> THEN o[1] ELSE dflt

SubgraphIdString(d) ==
    UnwrapOr(StringValue(Argument(FindDirective(FirstObjectType(d)))), "unknown")

---------------------------------------------------------------------------
Init ==
    /\ batch \in BOOLEAN
    /\ api \in BOOLEAN
    /\ nFiles \in 1..MaxFiles
    /\ pc = "start"
    /\ fi = 0 /\ li = 0 /\ nLines = 0 /\ fileLens = <<>>
    /\ raw = NoText /\ name = NoName /\ doc = <<>> /\ id = ""
    /\ envFlag = FALSE /\ envWrites = 0
    /\ stdout = <<>> /\ stderr = <<>> /\ exitCode = <<>>
    /\ ingested = <<>> /\ stages = <<>>

\* where parse() returns to
ReturnPc == IF batch THEN "lines" ELSE "files"

\* a panic!/expect failure in the main thread
Panic(msg) ==
    /\ stderr' = Append(stderr, Line("panic", NoName, msg))
    /\ exitCode' = <<ExitPanic>>
    /\ pc' = "exited"

\* the call parse(raw, &name, opt.api)
CallParse(text, nm, f, l) ==
    /\ raw' = text
    /\ name' = nm
    /\ ingested' = Append(ingested, [f |-> f, l |-> l, name |-> nm])
    /\ pc' = "parse"

\* SetEnv with the set_var call left out of the start of main
SetEnvMissing ==
    /\ pc = "start"
    /\ pc' = "files"
    /\ UNCHANGED <<opts, pos, locals, env, out, hist>>

\* main: set_var, Opts::parse
SetEnv ==
    /\ pc = "start"
    /\ envFlag' = TRUE
    /\ envWrites' = envWrites + 1
    /\ pc' = "files"
    /\ UNCHANGED <<opts, pos, locals, out, hist>>

\* main, --batch: the outer loop opens the next file (lines 135-138)
OpenBatchFile ==
    /\ pc = "files" /\ batch /\ fi < nFiles
    /\ fi' = fi + 1
    /\ stdout' = Append(stdout, Line("Validating schemas from", SchemaPath(fi + 1), ""))
    /\ stages' = <<>>
    /\ \/ /\ Panic("file exists")
          /\ UNCHANGED <<li, nLines, fileLens>>
       \/ /\ \E n \in 0..Min(MaxLines, MaxSchemas - Len(ingested)) :
                /\ nLines' = n
                /\ fileLens' = Append(fileLens, n)
          /\ li' = 0
          /\ pc' = "lines"
          /\ UNCHANGED <<stderr, exitCode>>
    /\ UNCHANGED <<opts, locals, env, ingested>>

\* NextLine with a malformed record reported and skipped instead of unwrapped
NextLineSkipsBad ==
    /\ pc = "lines" /\ li < nLines
    /\ li' = li + 1
    /\ stages' = <<>>
    /\ \/ /\ stderr' = Append(stderr, Line("panic", NoName, "invalid line"))
          /\ UNCHANGED <<raw, name, ingested, pc, exitCode>>
       \/ /\ stderr' = Append(stderr, Line("panic", NoName, "line is valid json"))
          /\ UNCHANGED <<raw, name, ingested, pc, exitCode>>
       \/ /\ \E n \in BulkIds, text \in Texts : CallParse(text, BulkName(n), fi, li + 1)
          /\ UNCHANGED <<stderr, exitCode>>
    /\ UNCHANGED <<opts, fi, nLines, fileLens, doc, id, env, stdout>>

\* NextLine over the file's lines collected and walked from the last one
NextLineReversed ==
    /\ pc = "lines" /\ li < nLines
    /\ li' = li + 1
    /\ stages' = <<>>
    /\ \/ /\ Panic("invalid line")
          /\ UNCHANGED <<raw, name, ingested>>
       \/ /\ Panic("line is valid json")
          /\ UNCHANGED <<raw, name, ingested>>
       \/ /\ \E n \in BulkIds, text \in Texts : CallParse(text, BulkName(n), fi, nLines - li)
          /\ UNCHANGED <<stderr, exitCode>>
    /\ UNCHANGED <<opts, fi, nLines, fileLens, doc, id, env, stdout>>

\* main, --batch: the inner loop takes the next line (lines 139-145)
\* A well-formed record is given by the Entry it deserializes to once the
\* doubled backslashes of the line are collapsed; any other line panics.
NextLine ==
    /\ pc = "lines" /\ li < nLines
    /\ li' = li + 1
    /\ stages' = <<>>
    /\ \/ /\ Panic("invalid line")
          /\ UNCHANGED <<raw, name, ingested>>
       \/ /\ Panic("line is valid json")
          /\ UNCHANGED <<raw, name, ingested>>
       \/ /\ \E n \in BulkIds, text \in Texts : CallParse(text, BulkName(n), fi, li + 1)
          /\ UNCHANGED <<stderr, exitCode>>
    /\ UNCHANGED <<opts, fi, nLines, fileLens, doc, id, env, stdout>>

\* main, --batch: rdr.lines() is exhausted, back to the outer loop
EndOfFile ==
    /\ pc = "lines" /\ li = nLines
    /\ pc' = "files"
    /\ stages' = <<>>
    /\ UNCHANGED <<opts, pos, locals, env, out, ingested>>

\* main, single mode: one loop iteration up to the call of parse (lines 149-152)
ReadSingleFile ==
    /\ pc = "files" /\ ~batch /\ fi < nFiles
    /\ fi' = fi + 1
    /\ stdout' = Append(stdout, Line("Validating schema from", SchemaPath(fi + 1), ""))
    /\ stages' = <<>>
    /\ \/ /\ Panic("file exists")
          /\ UNCHANGED <<raw, name, ingested, fileLens>>
       \/ /\ \E text \in Texts : CallParse(text, SchemaPath(fi + 1), fi + 1, 0)
          /\ fileLens' = Append(fileLens, 1)
          /\ UNCHANGED <<stderr, exitCode>>
    /\ UNCHANGED <<opts, li, nLines, doc, id, env>>

\* Finish with the exit status reflecting the failure lines printed
FinishReportsFailures ==
    /\ pc = "files" /\ fi = nFiles
    /\ pc' = "exited"
    /\ exitCode' = IF \E i \in 1..Len(stdout) : stdout[i].tag \in {"InputSchema", "ApiSchema"}
                   THEN <<ExitEnsure>> ELSE <<ExitOk>>
    /\ stages' = <<>>
    /\ UNCHANGED <<opts, pos, locals, env, stdout, stderr, ingested>>

\* main returns after the last file
Finish ==
    /\ pc = "files" /\ fi = nFiles
    /\ pc' = "exited"
    /\ exitCode' = <<ExitOk>>
    /\ stages' = <<>>
    /\ UNCHANGED <<opts, pos, locals, env, stdout, stderr, ingested>>

\* ParseStage with the parse error printed but the process left running
ParseStageGoesOn ==
    /\ pc = "parse"
    /\ stages' = Append(stages, [stage |-> "parse", ok |-> ParseSchema(raw).ok])
    /\ doc' = ParseSchema(raw).val
    /\ pc' = "identify"
    /\ IF ParseSchema(raw).ok
       THEN UNCHANGED stderr
       ELSE stderr' = Append(stderr, Line("Failed to parse schema sgd", name, "parse error"))
    /\ UNCHANGED <<opts, pos, raw, name, id, env, stdout, exitCode, ingested>>

\* parse: ensure(parse_schema(raw)...) (lines 104-107, 54-62)
ParseStage ==
    /\ pc = "parse"
    /\ stages' = Append(stages, [stage |-> "parse", ok |-> ParseSchema(raw).ok])
    /\ IF ParseSchema(raw).ok
       THEN /\ doc' = ParseSchema(raw).val
            /\ pc' = "identify"
            /\ UNCHANGED <<stderr, exitCode>>
       ELSE /\ stderr' = Append(stderr, Line("Failed to parse schema sgd", name, "parse error"))
            /\ exitCode' = <<ExitEnsure>>
            /\ pc' = "exited"
            /\ UNCHANGED doc
    /\ UNCHANGED <<opts, pos, raw, name, id, env, stdout, ingested>>

\* parse: let id = subgraph_id(&schema) (lines 108, 64-76)
Identify ==
    /\ pc = "identify"
    /\ LET h == DeploymentHashNew(SubgraphIdString(doc)) IN
       /\ stages' = Append(stages, [stage |-> "identify", ok |-> h.ok])
       /\ IF h.ok
          THEN /\ id' = h.val
               /\ pc' = "validate"
               /\ UNCHANGED <<stderr, exitCode>>
          ELSE /\ Panic("subgraph id is not a valid deployment hash")
               /\ UNCHANGED id
    /\ UNCHANGED <<opts, pos, raw, name, doc, env, stdout, ingested>>

\* Validate with the schema error handed to ensure(): it ends the process
ValidateExits ==
    /\ pc = "validate"
    /\ LET ok == InputSchemaParse(raw, id, envFlag) IN
       /\ stages' = Append(stages, [stage |-> "validate", ok |-> ok])
       /\ IF ok
          THEN /\ pc' = IF api THEN "derive" ELSE "ok"
               /\ UNCHANGED <<stdout, exitCode>>
          ELSE /\ stdout' = Append(stdout, Line("InputSchema", name, id))
               /\ exitCode' = <<ExitEnsure>>
               /\ pc' = "exited"
    /\ UNCHANGED <<opts, pos, locals, env, stderr, ingested>>

\* Validate with the `return` after the failure line missing
ValidateFallsThrough ==
    /\ pc = "validate"
    /\ LET ok == InputSchemaParse(raw, id, envFlag) IN
       /\ stages' = Append(stages, [stage |-> "validate", ok |-> ok])
       /\ pc' = IF api THEN "derive" ELSE "ok"
       /\ IF ok
          THEN UNCHANGED stdout
          ELSE stdout' = Append(stdout, Line("InputSchema", name, id))
    /\ UNCHANGED <<opts, pos, locals, env, stderr, exitCode, ingested>>

\* Validate with a schema error left to the derivation when --api is given
ValidateDefersToApi ==
    /\ pc = "validate"
    /\ LET ok == api \/ InputSchemaParse(raw, id, envFlag) IN
       /\ stages' = Append(stages, [stage |-> "validate", ok |-> ok])
       /\ IF ok
          THEN /\ pc' = IF api THEN "derive" ELSE "ok"
               /\ UNCHANGED stdout
          ELSE /\ stdout' = Append(stdout, Line("InputSchema", name, id))
               /\ pc' = ReturnPc
    /\ UNCHANGED <<opts, pos, locals, env, stderr, exitCode, ingested>>

\* parse: InputSchema::parse (lines 109-115)
Validate ==
    /\ pc = "validate"
    /\ LET ok == InputSchemaParse(raw, id, envFlag) IN
       /\ stages' = Append(stages, [stage |-> "validate", ok |-> ok])
       /\ IF ok
          THEN /\ pc' = IF api THEN "derive" ELSE "ok"
               /\ UNCHANGED stdout
          ELSE /\ stdout' = Append(stdout, Line("InputSchema", name, id))
               /\ pc' = ReturnPc
    /\ UNCHANGED <<opts, pos, locals, env, stderr, exitCode, ingested>>

\* Derive with the failure line of the InputSchema arm
DeriveReportsInputSchema ==
    /\ pc = "derive"
    /\ stages' = Append(stages, [stage |-> "derive", ok |-> ApiSchema(raw)])
    /\ IF ApiSchema(raw)
       THEN /\ pc' = "ok"
            /\ UNCHANGED stdout
       ELSE /\ stdout' = Append(stdout, Line("InputSchema", name, id))
            /\ pc' = ReturnPc
    /\ UNCHANGED <<opts, pos, locals, env, stderr, exitCode, ingested>>

\* parse: if api { input_schema.api_schema() } (lines 116-124)
Derive ==
    /\ pc = "derive"
    /\ stages' = Append(stages, [stage |-> "derive", ok |-> ApiSchema(raw)])
    /\ IF ApiSchema(raw)
       THEN /\ pc' = "ok"
            /\ UNCHANGED stdout
       ELSE /\ stdout' = Append(stdout, Line("ApiSchema", name, id))
            /\ pc' = ReturnPc
    /\ UNCHANGED <<opts, pos, locals, env, stderr, exitCode, ingested>>

\* parse: println!("Schema {}[{}]: OK", name, id) (line 125)
PrintOk ==
    /\ pc = "ok"
    /\ stdout' = Append(stdout, Line("Schema OK", name, id))
    /\ pc' = ReturnPc
    /\ UNCHANGED <<opts, pos, locals, env, stderr, exitCode, hist>>

Next ==
    \/ SetEnv
    \/ OpenBatchFile
    \/ NextLine
    \/ EndOfFile
    \/ ReadSingleFile
    \/ Finish
    \/ ParseStage
    \/ Identify
    \/ Validate
    \/ Derive
    \/ PrintOk

Spec == Init /\ [][Next]_vars

---------------------------------------------------------------------------
(* Vocabulary of the properties *)

RECURSIVE Sum(_)
Sum(s) == IF s = <<>> THEN 0 ELSE s[1] + Sum(Tail(s))

IsReport(l) == l.tag \in {"InputSchema", "ApiSchema", "Schema OK"}
IsFailureReport(l) == l.tag \in {"InputSchema", "ApiSchema"}
IsBanner(l) == l.tag \in {"Validating schema from", "Validating schemas from"}
Reports == SelectSeq(stdout, IsReport)
Banners == SelectSeq(stdout, IsBanner)

InParse == pc \in {"parse", "identify", "validate", "derive", "ok"}
Failed == stages # <<>> /\ ~Last(stages).ok
FailedAt(st) == Failed /\ Last(stages).stage = st
Returned == pc = ReturnPc /\ stages # <<>>
IngestionMessages == {"file exists", "invalid line", "line is valid json"}
RecordMessages == {"invalid line", "line is valid json"}
StageOrder == <<"parse", "identify", "validate", "derive">>

\* every schema of every file of the command line was handed to parse()
AllIngested == Len(fileLens) = nFiles /\ Len(ingested) = Sum(fileLens)

---------------------------------------------------------------------------
(* C1 as stated: whatever stage of parse() fails for a schema (grammar      *)
(* parse, identifier construction, InputSchema validation, ApiSchema       *)
(* derivation), the run is not aborted.                                    *)
C1_AnyStageFailureContinues == Failed => pc # "exited"

(* C1, amended: a schema whose InputSchema validation or ApiSchema         *)
(* derivation fails leaves the run going: parse() returns to the loop with *)
(* no exit status set, and a run that ends without a fatal message has     *)
(* handed every schema of every file to parse().  The failures of parse()  *)
(* that do end the run are exactly those of the grammar parse (exit 1) and *)
(* of the identifier construction (panic).                                 *)
C1_ValidationFailureContinues ==
    /\ (FailedAt("validate") \/ FailedAt("derive")) => (pc = ReturnPc /\ exitCode = <<>>)
    /\ (Failed /\ pc = "exited") =>
          /\ Last(stages).stage \in {"parse", "identify"}
          /\ exitCode = IF Last(stages).stage = "parse" THEN <<ExitEnsure>> ELSE <<ExitPanic>>
    /\ (FailedAt("parse") \/ FailedAt("identify")) => pc = "exited"
    /\ (pc = "exited" /\ stderr = <<>>) => (exitCode = <<ExitOk>> /\ AllIngested)

(* C1 witness: a run that ended normally after a schema failed validation  *)
(* or derivation and a later schema was still processed.                   *)
C1_Witness ==
    /\ pc = "exited" /\ exitCode = <<ExitOk>>
    /\ Len(Reports) >= 2
    /\ IsFailureReport(Reports[1])
    /\ AllIngested

---------------------------------------------------------------------------
(* C2 as stated: every schema handed to parse() has, once parse() is over  *)
(* (it returned or ended the process), exactly one report line on standard *)
(* output, whichever stage failed.                                         *)
C2_OneStdoutLinePerSchema == ~InParse => Len(Reports) = Len(ingested)

(* C2, amended: every schema handed to parse() whose grammar parse and     *)
(* identifier construction succeed gets exactly one report line on         *)
(* standard output, naming its label: the success line, or the failure     *)
(* line of the first stage that failed (InputSchema, else ApiSchema); no   *)
(* line is printed while parse() runs.  A schema that fails the grammar    *)
(* parse or the identifier construction gets no line on standard output:   *)
(* the message goes to standard error and the process ends.                *)
C2_OneLineUnlessFatal ==
    /\ Len(Reports) = Len(ingested) - (IF InParse \/ FailedAt("parse") \/ FailedAt("identify")
                                       THEN 1 ELSE 0)
    /\ \A i \in 1..Len(Reports) : Reports[i].name = ingested[i].name
    /\ Returned =>
          /\ IsReport(Last(stdout))
          /\ Last(stdout).tag = IF FailedAt("validate") THEN "InputSchema"
                                ELSE IF FailedAt("derive") THEN "ApiSchema"
                                ELSE "Schema OK"
    /\ (FailedAt("parse") \/ FailedAt("identify")) =>
          /\ stderr # <<>>
          /\ pc = "exited"

(* C2 witness: two schemas processed, each with its one line, one of them  *)
(* a failure line.                                                         *)
C2_Witness ==
    /\ pc \in {"files", "lines"}
    /\ Len(ingested) = 2 /\ Len(Reports) = 2
    /\ Reports[1].tag = "Schema OK" /\ Reports[2].tag = "ApiSchema"

---------------------------------------------------------------------------
(* C3 as stated: the exit status is non-zero only after an ingestion-level *)
(* error (unreadable file, malformed bulk record).                         *)
C3_NonZeroOnlyOnIngestionError ==
    (exitCode # <<>> /\ exitCode # <<ExitOk>>) =>
        (stderr # <<>> /\ Last(stderr).id \in IngestionMessages)

(* C3, amended: the exit status is non-zero only after an ingestion-level  *)
(* error, a failed grammar parse (status 1) or an identifier that is no    *)
(* valid deployment hash (panic); a run with none of these exits with      *)
(* success after the last schema, even if schemas failed InputSchema       *)
(* validation or ApiSchema derivation.                                     *)
C3_NonZeroOnlyOnFatalError ==
    /\ (pc = "exited") = (exitCode # <<>>)
    /\ (exitCode = <<ExitOk>>) = (pc = "exited" /\ stderr = <<>>)
    /\ exitCode = <<ExitOk>> => (fi = nFiles /\ AllIngested)
    /\ exitCode \in {<<>>, <<ExitOk>>, <<ExitEnsure>>, <<ExitPanic>>}
    /\ exitCode = <<ExitEnsure>> => (FailedAt("parse") /\ Last(stderr).tag = "Failed to parse schema sgd")
    /\ exitCode = <<ExitPanic>> =>
          /\ Last(stderr).tag = "panic"
          /\ IF FailedAt("identify")
             THEN Last(stderr).id = "subgraph id is not a valid deployment hash"
             ELSE Last(stderr).id \in IngestionMessages /\ stages = <<>>

(* C3 witness: a run that exits with success although both a validation   *)
(* and a derivation failure were reported.                                 *)
C3_Witness ==
    /\ exitCode = <<ExitOk>>
    /\ \E i, j \in 1..Len(stdout) : stdout[i].tag = "InputSchema" /\ stdout[j].tag = "ApiSchema"

---------------------------------------------------------------------------
RecordAbort == stderr # <<>> /\ Last(stderr).id \in RecordMessages
Before(a, b) == a.f < b.f \/ (a.f = b.f /\ a.l < b.l)

(* C4: in bulk mode a malformed record at line k of a file (an unreadable  *)
(* line, or a line that is no {id, schema} record) ends the run there with *)
(* a panic: the records before it, of this file and of the earlier files,  *)
(* were all handed to parse() and have their outcome reported, only those  *)
(* were, and nothing runs afterwards (the record is not skipped, no later  *)
(* record or file is read).                                                *)
C4_MalformedRecordAborts ==
    RecordAbort =>
        /\ batch
        /\ pc = "exited" /\ exitCode = <<ExitPanic>>
        /\ ~ENABLED Next
        /\ Len(ingested) = Sum(SubSeq(fileLens, 1, fi - 1)) + (li - 1)
        /\ \A i \in 1..Len(ingested) :
              ingested[i].f < fi \/ (ingested[i].f = fi /\ ingested[i].l < li)
        /\ Len(Reports) = Len(ingested)

(* C4 witness: the second line of the second file is malformed, after the  *)
(* first file's records and the first line were processed and reported.    *)
C4_Witness ==
    /\ RecordAbort
    /\ fi = 2 /\ li = 2
    /\ Len(ingested) >= 2 /\ Len(Reports) = Len(ingested)

(* C4 witness, first line: nothing of the file was processed.              *)
C4_WitnessFirstLine == RecordAbort /\ fi = 1 /\ li = 1 /\ ingested = <<>> /\ Reports = <<>>

---------------------------------------------------------------------------
(* C5: schemas are processed one at a time and in input order: files in    *)
(* command-line order, records of a bulk file in line order, a schema is   *)
(* ingested only when every earlier one has its terminal report line, and  *)
(* the report lines follow the order of ingestion.                         *)
C5_SequentialInOrder ==
    /\ \A i, j \in 1..Len(ingested) : i < j => Before(ingested[i], ingested[j])
    /\ \A i \in 1..Len(ingested) : ingested[i].f <= fi
    /\ Len(Banners) = fi
    /\ \A i \in 1..Len(Banners) : Banners[i].name = SchemaPath(i)
    /\ Len(Reports) \in {Len(ingested) - 1, Len(ingested)}
    /\ pc = "parse" => (Len(Reports) = Len(ingested) - 1 /\ stages = <<>>)
    /\ \A i \in 1..Len(Reports) : Reports[i].name = ingested[i].name

(* C5 witness: three schemas from two bulk files, all reported.            *)
C5_Witness ==
    /\ batch
    /\ Len(ingested) = 3 /\ Len(Reports) = 3
    /\ ingested[1].f = 1 /\ ingested[2].l = 2 /\ ingested[3].f = 2
    /\ ingested[1].name # ingested[2].name

---------------------------------------------------------------------------
StageDone(st) == \E i \in 1..Len(stages) : stages[i].stage = st
StageOk(st) == \E i \in 1..Len(stages) : stages[i].stage = st /\ stages[i].ok
HasStringId(d) == d # <<>> /\ d[1].dir /\ d[1].arg = "string"
DeclaredId(d) == IF HasStringId(d) THEN d[1].val ELSE "unknown"

(* C6 as stated: for every parsed document subgraph_id yields the string   *)
(* `id` argument of the subgraphId directive of the first object type, or  *)
(* "unknown" in every other case, and validation proceeds with that value. *)
C6_IdIsArgumentOrUnknown ==
    StageDone("identify") => (StageOk("identify") /\ id = DeclaredId(doc))

(* C6, amended: the same, when the string argument is a valid deployment   *)
(* hash; when the first object type's directive carries a string that is   *)
(* no valid deployment hash, subgraph_id panics and nothing is validated.  *)
(* The sentinel "unknown" is a valid deployment hash.                      *)
C6_IdIsValidArgumentOrUnknown ==
    StageDone("identify") =>
        IF HasStringId(doc) /\ doc[1].val \in InvalidHashes
        THEN /\ FailedAt("identify")
             /\ pc = "exited" /\ exitCode = <<ExitPanic>>
        ELSE /\ StageOk("identify")
             /\ id = DeclaredId(doc)
             /\ pc # "exited"
             /\ Returned => (Last(stdout).id = DeclaredId(doc) /\ StageDone("validate"))

(* C6 witness: the directive sits on the second object type only, and the  *)
(* schema was validated and reported under "unknown".                      *)
C6_Witness ==
    /\ Returned
    /\ Len(doc) = 2 /\ ~doc[1].dir /\ doc[2].dir /\ doc[2].arg = "string"
    /\ id = "unknown" /\ Last(stdout).id = "unknown"

(* C6 witness, directive present: the declared string is the identifier.   *)
C6_WitnessDeclared == Returned /\ HasStringId(doc) /\ id = "abc123" /\ Last(stdout).id = "abc123"

---------------------------------------------------------------------------
(* C7: the InputSchema outcome of a schema is decided by its text alone,   *)
(* whether or not --api is given: it is the text's validity in every run,  *)
(* and a failure prints the "InputSchema" line for the schema's label and  *)
(* identifier and returns without attempting the derivation.               *)
C7_ApiDoesNotChangeValidation ==
    /\ StageDone("validate") => (stages[3].stage = "validate" /\ stages[3].ok = raw.inputOk)
    /\ FailedAt("validate") =>
          /\ Len(stages) = 3
          /\ pc = ReturnPc
          /\ Last(stdout) = Line("InputSchema", name, DeclaredId(raw.types))
    /\ StageDone("derive") => raw.inputOk

(* C7 witness: an invalid schema reported as such in a run with --api.     *)
C7_Witness == api /\ FailedAt("validate") /\ Last(stdout).tag = "InputSchema" /\ ~raw.apiOk

(* C7 witness, without --api.                                              *)
C7_WitnessNoApi == ~api /\ FailedAt("validate") /\ Last(stdout).tag = "InputSchema"

---------------------------------------------------------------------------
(* C8: the stages of parse() are attempted in the order parse, identify,   *)
(* validate, derive, each only after every earlier one succeeded; a failed *)
(* grammar parse is reported (on standard error) and no later stage is     *)
(* attempted for that schema.                                              *)
C8_StagesInOrder ==
    /\ Len(stages) <= Len(StageOrder)
    /\ \A i \in 1..Len(stages) :
          /\ stages[i].stage = StageOrder[i]
          /\ i < Len(stages) => stages[i].ok
    /\ pc = "identify" => Len(stages) = 1
    /\ pc = "validate" => Len(stages) = 2
    /\ pc = "derive" => Len(stages) = 3
    /\ ~raw.syntax => Len(stages) <= 1
    /\ FailedAt("parse") =>
          /\ Len(stages) = 1
          /\ Last(stderr) = Line("Failed to parse schema sgd", name, "parse error")
          /\ Len(Reports) = Len(ingested) - 1

(* C8 witness: the second schema of a run fails the grammar parse.         *)
C8_Witness == FailedAt("parse") /\ Len(ingested) = 2 /\ Len(Reports) = 1 /\ pc = "exited"

---------------------------------------------------------------------------
(* C9: with --api, a schema that validates but whose derivation fails gets *)
(* the "ApiSchema" failure line with its label and identifier and no       *)
(* success line; without --api the derivation is never attempted and a     *)
(* schema that validates gets the success line.                            *)
C9_ApiFailureReportedAsApiSchema ==
    /\ FailedAt("derive") =>
          /\ api /\ StageOk("validate")
          /\ pc = ReturnPc
          /\ Last(stdout) = Line("ApiSchema", Last(ingested).name, DeclaredId(raw.types))
          /\ Len(Reports) = Len(ingested)
    /\ StageDone("derive") => api
    /\ (~api /\ Returned /\ StageOk("validate")) =>
          Last(stdout) = Line("Schema OK", Last(ingested).name, DeclaredId(raw.types))
    /\ (Returned /\ Last(stdout).tag = "Schema OK") => ~Failed

(* C9 witness: scenario D, a derivation failure reported under the         *)
(* schema's identifier.                                                    *)
C9_Witness ==
    /\ FailedAt("derive") /\ pc = ReturnPc
    /\ Last(stdout).tag = "ApiSchema" /\ Last(stdout).id = "abc123"

---------------------------------------------------------------------------
(* C10: the full-text-search flag is written exactly once, before any file *)
(* is opened and any schema validated; from then on it is set and never    *)
(* written again, so every validation reads it set.                        *)
C10_FlagSetOnceBeforeValidation ==
    /\ envWrites <= 1
    /\ pc = "start" => (envWrites = 0 /\ fi = 0 /\ stdout = <<>> /\ ingested = <<>>)
    /\ pc # "start" => (envWrites = 1 /\ envFlag)
    /\ (fi > 0 \/ ingested # <<>> \/ stages # <<>>) => (envWrites = 1 /\ envFlag)
    /\ (StageDone("validate") /\ raw.fulltext) => stages[3].ok = raw.inputOk

(* C10 witness: a schema with a fulltext directive validated after another *)
(* schema, the flag written once.                                          *)
C10_Witness ==
    /\ envWrites = 1 /\ envFlag
    /\ Len(ingested) = 2 /\ raw.fulltext /\ StageOk("validate")

====
